---- MODULE Spec2Model ----
(***************************************************************************)
(* A model of dbt/adapters/fabricspark/livysession.py: the bearer-token    *)
(* cache (get_headers), the Livy session client (LivySession), the cursor  *)
(* (LivyCursor) and the process-wide registry (LivySessionManager).        *)
(*                                                                         *)
(* Three specifications share the module:                                  *)
(*   SpecToken  the token cache under a clock that advances;               *)
(*   SpecExec   one cursor's execute()/fetchone()/close() against a remote *)
(*              that answers statement requests in every possible way;     *)
(*   Spec       the registry's connect()/disconnect() and a cursor's       *)
(*              submit step against remote sessions that start, die and    *)
(*              are deleted.                                               *)
(***************************************************************************)
EXTENDS Integers, Sequences, FiniteSets, TLC

VARIABLES
    \* ---- token cache (module globals, lines 34, 110-124)
    now,              \* the wall clock, whole seconds
    accessToken,      \* the global accessToken: [has, expires_on]
    tk_last,          \* what the last get_headers call saw and did
    zone,             \* the process's time zone: the change of its UTC offset, if any
    \* ---- one cursor's execute() (LivyCursor, lines 336-500)
    ex_pc,            \* position inside execute(): see ExecPcs
    ex_body,          \* the {code, kind} body built once per submit (line 342)
    ex_retries,       \* execute()'s retries_time (line 433)
    sub_retries,      \* _submitLivyCode's retries_time (line 347)
    sub_res,          \* the response _submitLivyCode returned (res_obj)
    ex_res,           \* execute()'s `res`: the result _getLivyResult returned
    rows,             \* LivyCursor._rows
    schema,           \* LivyCursor._schema
    ex_err,           \* the exception execute() ended with, or "none"
    ex_errval,        \* the evalue text carried by that exception
    ex_ran,           \* an execute() has run to its end on this cursor
    poll_id,          \* the statement id the last status GET asked for
    sub_posts,        \* the bodies POSTed by the current submit, in order
    sub_sleeps,       \* the sleeps taken by the current submit, in order
    sub_errs,         \* errored responses received by the current submit
    ex_cycles,        \* submit+poll cycles started by the current execute()
    ex_transients,    \* transient error results seen by the current execute()
    ex_sleeps,        \* the sleeps taken by execute()'s own retry loop
    src_rows,         \* the rows the server returned for the last successful execute
    fetch_log,        \* what fetchone returned since the last execute()/close()
    ex_params,        \* the positional parameters the last execute() was given
    \* ---- the remote service and the registry (lines 127-261, 562-593)
    remote,           \* session id -> its state at the remote ("absent": no such session)
    credentials,      \* livy_session_name, keep_session, shortcuts_json_path
    livy_global_session, \* LivySessionManager.livy_global_session
    cursors,          \* the session ids held (as self.session_id) by the cursors made
    pc,               \* position of the caller inside connect/disconnect/execute
    op,               \* the top-level call in progress
    branch,           \* the branch connect() took (1 first, 2 invalid, 3 flagged)
    ge_cands,         \* get_exist_session: the listed items still to visit
    ge_known,         \* get_exist_session: the state last seen of each session
    ge_result,        \* what get_exist_session returned
    err,              \* the exception the last top-level call raised, or "none"
    mine,             \* the sessions this process created or adopted
    cs_last,          \* the last create_session call: POST outcome, parsed, polled
    disc_trace,       \* what disconnect() calls did: DELETEs issued, flag set
    disconnected,     \* disconnect() has been called
    last_post,        \* the last statement POST of a cursor
    del_last,         \* the last delete_session call: how the DELETE went, raised or not
    retired,          \* the id the last disconnect() DELETEd; a connect() returned since
    shortcuts,        \* create_shortcuts calls made, and the session held at the last
    ge_trace,         \* get_exist_session: the first item it took up, the ids it polled
    poll_gap,         \* the sleep before the next status GET of a session loop (-1: none due)
    \* ---- connect() called by several threads at once (lines 565-587)
    r_global,         \* LivySessionManager.livy_global_session: 0 (None) or an object
    r_objs,           \* the LivySession objects, by the thread that made them
    r_pc,             \* each thread's position inside connect()
    r_self,           \* the object the method a thread is inside was called on
    r_resp,           \* the session id in the POST response a thread holds
    r_conn,           \* the session id of the connection a thread got (-1: none yet)
    r_err,            \* the exception a thread's connect() raised, or "none"
    r_remote          \* the remote's sessions, in the order they were created

tokenVars == <<now, accessToken, tk_last, zone>>
execVars == <<ex_pc, ex_body, ex_retries, sub_retries, sub_res, ex_res, rows, schema,
              ex_err, ex_errval, ex_ran, poll_id, sub_posts, sub_sleeps, sub_errs, ex_cycles, ex_transients,
              ex_sleeps, src_rows, fetch_log, ex_params>>
sessVars == <<remote, credentials, livy_global_session, cursors, pc, op, branch,
              ge_cands, ge_known, ge_result, err, mine, cs_last, disc_trace, disconnected,
              last_post, del_last, retired, shortcuts, ge_trace,
              poll_gap>>
raceVars == <<r_global, r_objs, r_pc, r_self, r_resp, r_conn, r_err, r_remote>>
vars == <<tokenVars, execVars, sessVars, raceVars>>

(***************************************************************************)
(* Program constants (lines 26-32).                                        *)
(***************************************************************************)
DEFAULT_POLL_WAIT == 45
DEFAULT_POLL_STATEMENT_WAIT == 5
DEFAULT_EXECUTE_RETRIES_TIME == 5
DEFAULT_EXECUTE_RETRIES_WAIT == 10
\* is_token_refresh_necessary compares whole minutes with this threshold (line 56)
TOKEN_REFRESH_MINUTES == 5

(***************************************************************************)
(* Bounds of the model.                                                    *)
(***************************************************************************)
MaxNow == 8           \* the clock runs from 0 to MaxNow
MaxRows == 2          \* rows in one result
MaxSessions == 3      \* session ids the remote can give out
MaxPre == 2           \* sessions that exist at the remote before the process starts
NThreads == 2         \* threads that call connect() at the same time

(***************************************************************************)
(* The token cache.                                                        *)
(***************************************************************************)
NoToken == [has |-> FALSE, expires_on |-> 0]

\* The expiries a cached token may start with and the lifetimes the identity
\* provider issues: either side of the five-minute threshold, and the past.
InitExpiries == {-90, -1, 0, 5, 240, 299, 300, 301, 304, 360, 3600}
TokenLifetimes == {299, 300, 304, 3600}

\* Python's int() on a float: truncation toward zero.
IntTrunc(n, d) == IF n >= 0 THEN n \div d ELSE -((-n) \div d)

\* The time zone of the process, as far as the model's clock reaches: its UTC
\* offset stays as it is, or changes once, at one instant, by an hour either
\* way (daylight saving begins or ends).
NoZoneChange == [changes |-> FALSE, at |-> 0, by |-> 0]
ZoneChanges == {NoZoneChange} \cup [changes : {TRUE}, at : {3, 200}, by : {-3600, 3600}]

\* The UTC offset at instant t, counted from the offset at the start.
UtcOffset(t) == IF zone.changes /\ t >= zone.at THEN zone.by ELSE 0

\* dt.datetime.fromtimestamp(t): the naive local date and time of instant t,
\* in seconds (lines 50, 55); time.mktime(time.localtime(now)) is now again.
LocalDatetime(t) == t + UtcOffset(t)

\* difference = the naive local datetime of the expiry minus that of now
\* (line 55); refresh when int(difference.total_seconds() / 60) < 5.
is_token_refresh_necessary(unixTimestamp, t) ==
    IntTrunc(LocalDatetime(unixTimestamp) - LocalDatetime(t), 60) < TOKEN_REFRESH_MINUTES

\* The condition of line 112.
NeedsFetch == (~accessToken.has) \/ is_token_refresh_necessary(accessToken.expires_on, now)

TkCall(fetched) ==
    [called |-> TRUE, had |-> accessToken.has, expires_on |-> accessToken.expires_on,
     at |-> now, fetched |-> fetched]

\* get_headers with a usable cached token: no fetch, the cache is kept.
GetHeadersCached ==
    /\ ~NeedsFetch
    /\ tk_last' = TkCall(FALSE)
    /\ UNCHANGED <<now, accessToken, zone, execVars, sessVars, raceVars>>

\* get_headers that fetches (CLI or service principal) and replaces the cache.
GetHeadersFetch(life) ==
    /\ NeedsFetch
    /\ accessToken' = [has |-> TRUE, expires_on |-> now + life]
    /\ tk_last' = TkCall(TRUE)
    /\ UNCHANGED <<now, zone, execVars, sessVars, raceVars>>

\* get_headers whose fetch raises: the exception propagates, the cache is kept.
GetHeadersFetchFails ==
    /\ NeedsFetch
    /\ tk_last' = TkCall(TRUE)
    /\ UNCHANGED <<now, accessToken, zone, execVars, sessVars, raceVars>>

Tick ==
    /\ now < MaxNow
    /\ now' = now + 1
    /\ UNCHANGED <<accessToken, tk_last, zone, execVars, sessVars, raceVars>>

InitToken ==
    /\ now = 0
    /\ zone \in ZoneChanges
    /\ accessToken \in {NoToken} \cup [has : {TRUE}, expires_on : InitExpiries]
    /\ tk_last = [called |-> FALSE, had |-> FALSE, expires_on |-> 0, at |-> 0,
                  fetched |-> FALSE]

TokenQuiet ==
    /\ now = 0
    /\ zone = NoZoneChange
    /\ accessToken = NoToken
    /\ tk_last = [called |-> FALSE, had |-> FALSE, expires_on |-> 0, at |-> 0,
                  fetched |-> FALSE]

(***************************************************************************)
(* One cursor's execute(), fetchone() and close().  The session is taken   *)
(* as connected (is_new_session_required clear); the reconnect of lines    *)
(* 337-339 is modelled with the registry, under Spec.                      *)
(***************************************************************************)
NoneVal == [some |-> FALSE, val |-> <<>>]
Some(v) == [some |-> TRUE, val |-> v]

\* Source text as a sequence of tokens: "/*c*/" is a block comment, "  " a run
\* of blanks, "\n" a line break, "%s" a conversion specifier; the codes are
\* one-line texts.
Codes == {<<"/*c*/", "select", "%s", "  ">>, <<"  ", "def model">>}
Languages == {"sql", "pyspark"}
\* The positional parameters of execute(): none, or one.
Parameters == {<<>>, <<"1">>}

\* The specifiers of a text.
RECURSIVE Specifiers(_)
Specifiers(code) ==
    IF code = <<>> THEN 0
    ELSE (IF Head(code) = "%s" THEN 1 ELSE 0) + Specifiers(Tail(code))

\* Python's `code % parameters` (line 429) with as many parameters as
\* specifiers: each specifier takes the next parameter.
RECURSIVE Interpolate(_, _)
Interpolate(code, parameters) ==
    IF code = <<>> THEN <<>>
    ELSE IF Head(code) = "%s"
         THEN <<Head(parameters)>> \o Interpolate(Tail(code), Tail(parameters))
         ELSE <<Head(code)>> \o Interpolate(Tail(code), parameters)

\* With another number of parameters than specifiers the operator raises
\* TypeError.
InterpolationFails(code, parameters) == Specifiers(code) # Len(parameters)

\* line 428
ParametersGiven(parameters) == Len(parameters) > 0

IsSpace(tok) == tok \in {"  ", "\n"}

RECURSIVE LStrip(_)
LStrip(s) == IF s # <<>> /\ IsSpace(Head(s)) THEN LStrip(Tail(s)) ELSE s
RECURSIVE RStrip(_)
RStrip(s) ==
    IF s # <<>> /\ IsSpace(s[Len(s)]) THEN RStrip(SubSeq(s, 1, Len(s) - 1)) ELSE s

\* re.sub(r"\s*/\*(.|\n)*?\*/\s*", "\n", sql, re.DOTALL) (line 376): every block
\* comment, with the white space around it, becomes one line break.  The
\* flag lands in the count argument (16), more comments than a code here has.
RECURSIVE SubComments(_)
SubComments(s) ==
    IF s = <<>> THEN <<>>
    ELSE LET rest == LStrip(s) IN
         IF rest # <<>> /\ Head(rest) = "/*c*/"
         THEN <<"\n">> \o SubComments(LStrip(Tail(rest)))
         ELSE <<Head(s)>> \o SubComments(Tail(s))

\* _getLivySQL: the substitution, then strip() (lines 376-377).
getLivySQL(sql) == RStrip(LStrip(SubComments(sql)))
\* _getLivyPyspark: textwrap.dedent takes the margin off a one-line text
\* (line 381).
getLivyPyspark(code) == IF code # <<>> /\ Head(code) = "  " THEN Tail(code) ELSE code
\* line 435
FinalCode(code, language) ==
    IF language = "pyspark" THEN getLivyPyspark(code) ELSE getLivySQL(code)

\* EXECUTE_RETRIES_PATTERNS[0], as tokens.
RetryPattern == <<"Request failed:", "HTTP/1.1 403 Forbidden", "ClientRequestId">>
EXECUTE_RETRIES_PATTERNS == {RetryPattern}

\* The evalue texts the remote may report.
EValues == {
    <<"Py4JJavaError:">> \o RetryPattern \o <<": 7f3a">>,
    <<"Request failed:", "HTTP/1.1 404 Not Found", "ClientRequestId">>,
    <<"AnalysisException">> }

\* Python's `pattern in text`.
Contains(text, pattern) ==
    \E i \in 1..(Len(text) - Len(pattern) + 1) :
        SubSeq(text, i, i + Len(pattern) - 1) = pattern

RowVals == {"r1", "r2"}
Schemas == {<<"a">>, <<"a", "b">>}
RowSeqs == UNION {[1..n -> RowVals] : n \in 0..MaxRows}
\* output.data["application/json"]: an empty mapping, or {data, schema: {fields}}.
EmptyValues == [keys |-> 0, data |-> <<>>, fields |-> <<>>]
ValuesSet == {EmptyValues} \cup [keys : {2}, data : RowSeqs, fields : Schemas]
OkOutputs == [status : {"ok"}, evalue : {<<>>}, values : ValuesSet]
ErrOutputs == [status : {"error"}, evalue : EValues, values : {EmptyValues}]
Outputs == OkOutputs \cup ErrOutputs
NoOutput == [status |-> "none", evalue |-> <<>>, values |-> EmptyValues]
NoRes == [id |-> <<0, 0>>, state |-> "none", output |-> NoOutput]

\* The top-level states a statement POST may answer with, and the states a
\* statement GET reports before "available".
PostStates == {"error", "waiting", "running", "available"}
PendingStates == {"waiting", "running", "error"}

\* The id the remote gives the statement of the n-th POST of cycle c.
StmtId(c, n) == <<c, n>>

check_retry_condition_when_execute_any(res) ==
    res.output.status = "error"

check_retry_condition_when_execute(res) ==
    /\ res.output.status = "error"
    /\ \E pattern \in EXECUTE_RETRIES_PATTERNS : Contains(res.output.evalue, pattern)

check_retry_condition_when_submit_code(res) == res.state = "error"

SubmitRetryWait_flat(retries_time) == DEFAULT_EXECUTE_RETRIES_WAIT

\* line 358
SubmitRetryWait(retries_time) ==
    retries_time * DEFAULT_EXECUTE_RETRIES_WAIT + DEFAULT_EXECUTE_RETRIES_WAIT

\* line 445
ExecuteRetryWait(retries_time) ==
    retries_time * DEFAULT_EXECUTE_RETRIES_WAIT + DEFAULT_EXECUTE_RETRIES_WAIT

ExecuteMayRetry_short(retries_time) == retries_time < DEFAULT_EXECUTE_RETRIES_TIME - 1

\* line 442
ExecuteMayRetry(retries_time) == retries_time < DEFAULT_EXECUTE_RETRIES_TIME

SubmitMayRetry_short(retries_time) == retries_time < DEFAULT_EXECUTE_RETRIES_TIME - 1

\* line 355
SubmitMayRetry(retries_time) == retries_time < DEFAULT_EXECUTE_RETRIES_TIME

ExecIdle ==
    /\ ex_pc = "idle"
    /\ ex_body = [code |-> <<>>, kind |-> "sql"]
    /\ ex_retries = 0
    /\ sub_retries = 0
    /\ sub_res = NoRes
    /\ ex_res = NoRes
    /\ rows = NoneVal
    /\ schema = NoneVal
    /\ ex_err = "none"
    /\ ex_errval = <<>>
    /\ ex_ran = FALSE
    /\ poll_id = <<0, 0>>
    /\ sub_posts = <<>>
    /\ sub_sleeps = <<>>
    /\ sub_errs = 0
    /\ ex_cycles = 0
    /\ ex_transients = 0
    /\ ex_sleeps = <<>>
    /\ src_rows = NoneVal
    /\ fetch_log = <<>>
    /\ ex_params = <<>>

\* What every call of _submitLivyCode starts with (lines 342-347).
SubmitBegins ==
    /\ sub_retries' = 0
    /\ sub_posts' = <<>>
    /\ sub_sleeps' = <<>>
    /\ sub_errs' = 0

\* execute(code, language, *parameters): the code is interpolated when
\* parameters are given, retries_time = 0, the final code is computed, and the
\* first _submitLivyCode builds its body (lines 428-436, 342-347).
ExecStart(code, language, parameters) ==
    /\ ex_pc = "idle"
    /\ ex_params' = parameters
    /\ ex_retries' = 0
    /\ ex_res' = NoRes
    /\ sub_res' = NoRes
    /\ ex_transients' = 0
    /\ ex_sleeps' = <<>>
    /\ poll_id' = <<0, 0>>
    /\ SubmitBegins
    /\ IF ParametersGiven(parameters) /\ InterpolationFails(code, parameters)
       THEN \* line 429 raises; nothing of the cursor is touched
            /\ ex_err' = "TypeError"
            /\ ex_errval' = <<>>
            /\ ex_cycles' = 0
            /\ UNCHANGED <<ex_pc, ex_body, src_rows, fetch_log>>
       ELSE LET given == IF ParametersGiven(parameters)
                         THEN Interpolate(code, parameters) ELSE code
            IN /\ ex_pc' = "submit"
               /\ ex_body' = [code |-> FinalCode(given, language), kind |-> language]
               /\ ex_err' = "none"
               /\ ex_errval' = <<>>
               /\ ex_cycles' = 1
               /\ src_rows' = NoneVal
               /\ fetch_log' = <<>>
    /\ UNCHANGED <<rows, schema, ex_ran, tokenVars, sessVars, raceVars>>

\* The response to the POST now being made.
PostResponse(state) ==
    [id |-> StmtId(ex_cycles, Len(sub_posts) + 1), state |-> state, output |-> NoOutput]

\* A statement POST answered "error" while retries remain: sleep, count, POST
\* again (lines 349-360).
SubmitRetry ==
    /\ ex_pc = "submit"
    /\ check_retry_condition_when_submit_code(PostResponse("error"))
    /\ SubmitMayRetry(sub_retries)
    /\ sub_posts' = Append(sub_posts, ex_body)
    /\ sub_errs' = sub_errs + 1
    /\ sub_sleeps' = Append(sub_sleeps, SubmitRetryWait(sub_retries))
    /\ sub_retries' = sub_retries + 1
    /\ UNCHANGED <<ex_pc, ex_body, ex_retries, sub_res, ex_res, rows, schema, ex_err,
                   ex_errval, ex_ran, poll_id, ex_cycles, ex_transients, ex_sleeps,
                   src_rows, fetch_log, ex_params, tokenVars, sessVars, raceVars>>

\* A statement POST answered "error" with the retries used up: break, and the
\* errored response is returned (lines 354-364).
SubmitExhausted ==
    /\ ex_pc = "submit"
    /\ check_retry_condition_when_submit_code(PostResponse("error"))
    /\ ~SubmitMayRetry(sub_retries)
    /\ sub_posts' = Append(sub_posts, ex_body)
    /\ sub_errs' = sub_errs + 1
    /\ sub_res' = PostResponse("error")
    /\ ex_pc' = "poll"
    /\ UNCHANGED <<ex_body, ex_retries, sub_retries, ex_res, rows, schema, ex_err,
                   ex_errval, ex_ran, poll_id, sub_sleeps, ex_cycles, ex_transients,
                   ex_sleeps, src_rows, fetch_log, ex_params, tokenVars, sessVars, raceVars>>

\* A statement POST answered with another state: returned at once (line 362).
SubmitAccepted(state) ==
    /\ ex_pc = "submit"
    /\ ~check_retry_condition_when_submit_code(PostResponse(state))
    /\ sub_posts' = Append(sub_posts, ex_body)
    /\ sub_res' = PostResponse(state)
    /\ ex_pc' = "poll"
    /\ UNCHANGED <<ex_body, ex_retries, sub_retries, ex_res, rows, schema, ex_err,
                   ex_errval, ex_ran, poll_id, sub_sleeps, sub_errs, ex_cycles,
                   ex_transients, ex_sleeps, src_rows, fetch_log, ex_params, tokenVars, sessVars, raceVars>>

\* The result the statement GET returns once the statement is available.
PollResult(out) == [id |-> sub_res.id, state |-> "available", output |-> out]

\* A result whose error text holds the transient pattern, as the remote means it.
TransientOutput(out) == out.status = "error" /\ Contains(out.evalue, RetryPattern)

\* _getLivyResult: a GET that finds the statement not yet available; sleep
\* DEFAULT_POLL_STATEMENT_WAIT and ask again (lines 386-400).
PollPending(state) ==
    /\ ex_pc = "poll"
    /\ state # "available"
    /\ poll_id' = sub_res.id
    /\ UNCHANGED <<ex_pc, ex_body, ex_retries, sub_retries, sub_res, ex_res, rows, schema,
                   ex_err, ex_errval, ex_ran, sub_posts, sub_sleeps, sub_errs, ex_cycles,
                   ex_transients, ex_sleeps, src_rows, fetch_log, ex_params, tokenVars, sessVars, raceVars>>

\* The result is available with an error execute() retries: sleep, count, and
\* run the whole submit+poll cycle again (lines 439-447).
PollTransientRetry(out) ==
    /\ ex_pc = "poll"
    /\ check_retry_condition_when_execute(PollResult(out))
    /\ ExecuteMayRetry(ex_retries)
    /\ ex_res' = PollResult(out)
    /\ poll_id' = sub_res.id
    /\ ex_sleeps' = Append(ex_sleeps, ExecuteRetryWait(ex_retries))
    /\ ex_retries' = ex_retries + 1
    /\ ex_transients' = ex_transients + (IF TransientOutput(out) THEN 1 ELSE 0)
    /\ ex_cycles' = ex_cycles + 1
    /\ SubmitBegins
    /\ ex_pc' = "submit"
    /\ UNCHANGED <<ex_body, sub_res, rows, schema, ex_err, ex_errval, ex_ran, src_rows,
                   fetch_log, ex_params, tokenVars, sessVars, raceVars>>

ExecuteLoopEnds_always(out) == TRUE

ExecuteLoopEnds_never(out) == FALSE

\* The loop of lines 437-448 is left: no retry condition, or no retries left.
ExecuteLoopEnds(out) ==
    ~(check_retry_condition_when_execute(PollResult(out)) /\ ExecuteMayRetry(ex_retries))

\* The final result has output.status "ok": rows and schema are taken from it,
\* or are empty lists when the json mapping is empty (lines 449-458).
PollFinalOk(out) ==
    /\ ex_pc = "poll"
    /\ ExecuteLoopEnds(out)
    /\ out.status = "ok"
    /\ ex_res' = PollResult(out)
    /\ poll_id' = sub_res.id
    /\ rows' = IF out.values.keys >= 1 THEN Some(out.values.data) ELSE Some(<<>>)
    /\ schema' = IF out.values.keys >= 1 THEN Some(out.values.fields) ELSE Some(<<>>)
    /\ src_rows' = Some(out.values.data)
    /\ ex_ran' = TRUE
    /\ ex_pc' = "idle"
    /\ UNCHANGED <<ex_body, ex_retries, sub_retries, sub_res, ex_err, ex_errval, sub_posts,
                   sub_sleeps, sub_errs, ex_cycles, ex_transients, ex_sleeps, fetch_log,
                   ex_params, tokenVars, sessVars, raceVars>>

\* The final result has another status: rows and schema are cleared and
\* DbtDatabaseError is raised with the evalue (lines 459-464).
PollFinalError(out) ==
    /\ ex_pc = "poll"
    /\ ExecuteLoopEnds(out)
    /\ out.status # "ok"
    /\ ex_res' = PollResult(out)
    /\ poll_id' = sub_res.id
    /\ rows' = NoneVal
    /\ schema' = NoneVal
    /\ ex_err' = "DbtDatabaseError"
    /\ ex_errval' = out.evalue
    /\ ex_transients' = ex_transients + (IF TransientOutput(out) THEN 1 ELSE 0)
    /\ ex_ran' = TRUE
    /\ ex_pc' = "idle"
    /\ UNCHANGED <<ex_body, ex_retries, sub_retries, sub_res, sub_posts, sub_sleeps,
                   sub_errs, ex_cycles, ex_sleeps, src_rows, fetch_log, ex_params, tokenVars, sessVars, raceVars>>

PopBack(r) == [row |-> r[Len(r)], rest |-> SubSeq(r, 1, Len(r) - 1)]

\* list.pop(0) (line 496)
PopFront(r) == [row |-> Head(r), rest |-> Tail(r)]

\* fetchone (lines 495-500); "null" stands for Python's None.
FetchOne ==
    /\ ex_pc = "idle"
    /\ Len(fetch_log) < MaxRows + 2
    /\ IF rows.some /\ Len(rows.val) > 0
       THEN /\ fetch_log' = Append(fetch_log, PopFront(rows.val).row)
            /\ rows' = Some(PopFront(rows.val).rest)
       ELSE /\ fetch_log' = Append(fetch_log, "null")
            /\ rows' = rows
    /\ UNCHANGED <<ex_pc, ex_body, ex_retries, sub_retries, sub_res, ex_res, schema, ex_err,
                   ex_errval, ex_ran, poll_id, sub_posts, sub_sleeps, sub_errs, ex_cycles,
                   ex_transients, ex_sleeps, src_rows, ex_params, tokenVars, sessVars, raceVars>>

\* close (line 333): the buffered rows are dropped.
Close ==
    /\ ex_pc = "idle"
    /\ rows' = NoneVal
    /\ src_rows' = NoneVal
    /\ fetch_log' = <<>>
    /\ UNCHANGED <<ex_pc, ex_body, ex_retries, sub_retries, sub_res, ex_res, schema, ex_err,
                   ex_errval, ex_ran, poll_id, sub_posts, sub_sleeps, sub_errs, ex_cycles,
                   ex_transients, ex_sleeps, ex_params, tokenVars, sessVars, raceVars>>

(***************************************************************************)
(* The remote service, LivySession and LivySessionManager.  get_headers is *)
(* taken to succeed here; SpecToken models it.  A session GET reports one  *)
(* state, read by the code as `state`, `livyState` and                     *)
(* `livyInfo.currentState`.                                                *)
(***************************************************************************)
SessionIds == 1..MaxSessions
\* line 220 (and the literal list of line 234)
invalid_states == {"dead", "shutting_down", "killed"}
\* The states a session can be listed in, and the names sessions carry.
SessionStates ==
    {"not_started", "starting", "idle", "busy", "dead", "shutting_down", "killed"}
SessionNames == {"etl", "adhoc"}

Exists(id) == remote[id] # "absent"
NumSessions == Cardinality({id \in SessionIds : Exists(id)})

\* The body of GET /sessions/{id}.
SessionJson(id) ==
    [id |-> id, state |-> remote[id], livyInfo |-> [currentState |-> remote[id]]]

\* What GET /sessions may answer when the process first connects: up to MaxPre
\* sessions of any name and state; the item at place i has id i.
ListAnswers ==
    UNION {[1..n -> [name : SessionNames, livyState : SessionStates]] : n \in 0..MaxPre}
ListItems(answer) ==
    [i \in 1..Len(answer) |->
        [id |-> i, name |-> answer[i].name, livyState |-> answer[i].livyState]]

NoSession == [exists |-> FALSE, session_id |-> 0, is_new_session_required |-> TRUE]
\* LivySession.__init__ (lines 128-132); session id 0 stands for None.
NewLivySession == [exists |-> TRUE, session_id |-> 0, is_new_session_required |-> TRUE]

\* lines 213-221
is_valid_session(session) ==
    SessionJson(session.session_id).livyInfo.currentState \notin invalid_states

is_keeping_session_never == FALSE

\* lines 260-261
is_keeping_session == credentials.keep_session

\* lines 183 and 241
StillStarting(res) == res.state = "starting" \/ res.state = "not_started"

\* The sleep a session poll loop takes before it asks again: the loops of
\* create_session and get_exist_session sleep in the starting branch (lines
\* 183-185, 241-243) and have no sleep on any other path back to the GET.
SessionPollSleep(res) == IF StillStarting(res) THEN DEFAULT_POLL_WAIT ELSE 0

\* line 234
ListedInvalid(session) == session.livyState \in invalid_states

ExistSessionReady_any(res) == TRUE

\* line 244
ExistSessionReady(res) == res.livyInfo.currentState = "idle"

\* The items the for loop of lines 232-249 polls: name matches, not listed
\* in an invalid state.
RECURSIVE Candidates(_, _)
Candidates(items, name) ==
    IF items = <<>> THEN <<>>
    ELSE IF Head(items).name = name /\ ~ListedInvalid(Head(items))
         THEN <<Head(items).id>> \o Candidates(Tail(items), name)
         ELSE Candidates(Tail(items), name)

CsNone == [outcome |-> "none", parsed |-> FALSE, polled |-> FALSE]
NoPost == [made |-> FALSE, cursor |-> 0, invalid_at_call |-> FALSE, reconnected |-> FALSE,
           sid |-> 0]
NoDisc == [deleted |-> 0, flagged |-> FALSE]
NoDel == [outcome |-> "none", raised |-> FALSE]
NoRetired == [id |-> 0, connected |-> FALSE]
NoShortcuts == [calls |-> 0, session |-> 0]
NoGeTrace == [first |-> 0, polled |-> {}]
NoGap == -1
Unseen == [id \in SessionIds |-> "unseen"]

\* The records of what the last top-level call did start afresh with each call.
CallBegins ==
    /\ ge_known' = Unseen
    /\ ge_result' = 0
    /\ disc_trace' = NoDisc
    /\ del_last' = NoDel
    /\ ge_trace' = NoGeTrace
    /\ poll_gap' = NoGap

\* What a session POST may come to: requests raises (no response object), the
\* server answers an error status (a response object, raise_for_status
\* raises), or it answers 200 with a body that does or does not decode.
TransportFailures == {"ConnectionError", "Timeout", "HTTPError"}
\* The failures that leave `response` None (lines 151, 159-169): the ones
\* requests.post itself raises.
NoResponseFailures == {"ConnectionError", "Timeout"}
CreateOutcomes == TransportFailures \cup {"Created", "Undecodable"}
\* What a session DELETE may come to: the server answers 200, it answers
\* another status, requests raises, or get_headers cannot fetch a token.
DeleteOutcomes == {"deleted", "status_error", "transport_error", "token_error"}

\* An exception leaves the top-level call.
Raise(e) ==
    /\ pc' = "idle"
    /\ op' = "none"
    /\ branch' = 0
    /\ err' = e

ProvisionsShortcuts_every(b) == b \in {1, 2, 3} /\ credentials.shortcuts_json_path

\* lines 569-576: create_shortcuts is called inside the branch taken when the
\* registry held no session object, and only with a shortcuts path.
ProvisionsShortcuts(b) == b = 1 /\ credentials.shortcuts_json_path

\* The end of connect(): the flag is cleared (lines 572, 580, 583) and a
\* LivyConnection with its cursor is made on the session (lines 586-587, 277).
\* Called from _submitLivyCode, the connection is dropped and the cursor takes
\* the session id (lines 338-339); the statement POST follows.
FinishConnect(session, caller) ==
    /\ livy_global_session' = [session EXCEPT !.is_new_session_required = FALSE]
    /\ retired' = [retired EXCEPT !.connected = (retired.id # 0)]
    /\ shortcuts' = IF ProvisionsShortcuts(branch)
                    THEN [calls |-> shortcuts.calls + 1, session |-> session.session_id]
                    ELSE shortcuts
    /\ branch' = 0
    /\ IF caller = "execute"
       THEN /\ pc' = "ex_post"
            /\ op' = "execute"
            /\ cursors' \in {(cursors \ {last_post.cursor}) \cup {session.session_id},
                             cursors \cup {session.session_id}}
       ELSE /\ pc' = "idle"
            /\ op' = "none"
            /\ cursors' = cursors \cup {session.session_id}

\* connect() with a session object in the registry (lines 577-585).
ConnectExisting(caller) ==
    LET g == livy_global_session IN
    IF g.session_id = 0
    THEN \* is_valid_session concatenates None to the url
         /\ Raise("TypeError")
         /\ cs_last' = CsNone
         /\ UNCHANGED <<livy_global_session, cursors, retired, shortcuts>>
    ELSE IF ~is_valid_session(g)
    THEN /\ pc' = "cn_delete"
         /\ op' = caller
         /\ branch' = 2
         /\ err' = "none"
         /\ cs_last' = CsNone
         /\ UNCHANGED <<livy_global_session, cursors, retired, shortcuts>>
    ELSE IF g.is_new_session_required
    THEN /\ pc' = "cs_post"
         /\ op' = caller
         /\ branch' = 3
         /\ err' = "none"
         /\ cs_last' = CsNone
         /\ UNCHANGED <<livy_global_session, cursors, retired, shortcuts>>
    ELSE /\ FinishConnect(g, caller)
         /\ err' = "none"
         /\ cs_last' = CsNone

\* connect() with no session object yet (lines 569-571, 223-231, 253-256):
\* the object is made and get_exist_session lists the remote sessions.
ConnectFirstGiven(answer) ==
    /\ credentials.livy_session_name = "none" => answer = <<>>
    /\ livy_global_session' = NewLivySession
    /\ op' = "connect"
    /\ branch' = 1
    /\ err' = "none"
    /\ cs_last' = CsNone
    /\ IF credentials.livy_session_name = "none"
       THEN /\ pc' = "cs_post"
            /\ UNCHANGED <<remote, ge_cands, ge_known, ge_trace>>
       ELSE LET items == ListItems(answer)
                cands == Candidates(items, credentials.livy_session_name)
            IN /\ ge_cands' = cands
               /\ ge_trace' = [first |-> IF cands = <<>> THEN 0 ELSE Head(cands),
                                polled |-> {}]
               /\ ge_known' = [id \in SessionIds |->
                                 IF id <= Len(items) THEN items[id].livyState ELSE "unseen"]
               /\ remote' = [id \in SessionIds |->
                               IF id > Len(items) THEN "absent"
                               ELSE IF \E i \in 1..Len(cands) : cands[i] = id
                                    THEN items[id].livyState
                                    ELSE "out_of_sight"]
               /\ pc' = IF cands = <<>> THEN "cs_post" ELSE "ge_poll"
    /\ last_post' = NoPost
    /\ UNCHANGED <<credentials, cursors, ge_result, mine, disc_trace,
                   disconnected, del_last, retired, shortcuts, poll_gap, tokenVars, execVars, raceVars>>

ConnectFirst ==
    /\ pc = "idle"
    /\ ~livy_global_session.exists
    /\ \E answer \in ListAnswers : ConnectFirstGiven(answer)

\* One status GET of get_exist_session's inner loop (lines 236-247) and what
\* follows it up to the next request.
GePoll ==
    /\ pc = "ge_poll"
    /\ LET id == Head(ge_cands)
           res == SessionJson(id)
           g == [livy_global_session EXCEPT !.session_id = id]
       IN /\ ge_known' = [ge_known EXCEPT ![id] = res.livyInfo.currentState]
          /\ ge_trace' = [ge_trace EXCEPT !.polled = @ \cup {id}]
          /\ IF StillStarting(res) \/ ~ExistSessionReady(res)
             THEN \* sleep and poll again, or poll again at once
                  /\ poll_gap' = SessionPollSleep(res)
                  /\ UNCHANGED <<livy_global_session, cursors, pc, op, branch, ge_cands,
                              ge_result, mine, retired, shortcuts>>
             ELSE IF Tail(ge_cands) # <<>>
             THEN \* break; the for loop goes on to the next item
                  /\ livy_global_session' = g
                  /\ poll_gap' = NoGap
                  /\ ge_cands' = Tail(ge_cands)
                  /\ UNCHANGED <<cursors, pc, op, branch, ge_result, mine, retired, shortcuts>>
             ELSE \* the list is done: return self.session_id (line 251)
                  /\ ge_cands' = <<>>
                  /\ poll_gap' = NoGap
                  /\ ge_result' = g.session_id
                  /\ mine' = mine \cup {g.session_id}
                  /\ FinishConnect(g, "connect")
    /\ UNCHANGED <<remote, credentials, err, cs_last, disc_trace, disconnected,
                   last_post, del_last, tokenVars, execVars, raceVars>>

\* connect() with a session object in the registry: the validity GET and the
\* branch taken (lines 577-587).
ConnectAgain ==
    /\ pc = "idle"
    /\ livy_global_session.exists
    /\ ConnectExisting("connect")
    /\ CallBegins
    /\ last_post' = NoPost
    /\ UNCHANGED <<remote, credentials, ge_cands, mine, disconnected, tokenVars,
                   execVars, raceVars>>

\* The smallest id the remote has not given out.
NextSessionId == NumSessions + 1

\* create_session's POST and the parsing of its answer (lines 148-175).
CreatePost(outcome) ==
    /\ pc = "cs_post"
    /\ outcome = "Created" => NextSessionId \in SessionIds
    /\ IF outcome \in NoResponseFailures
       THEN \* response is None (line 168)
            /\ Raise("InvalidResponse")
            /\ cs_last' = [outcome |-> outcome, parsed |-> FALSE, polled |-> FALSE]
            /\ UNCHANGED <<remote, livy_global_session, mine>>
       ELSE /\ cs_last' = [outcome |-> outcome, parsed |-> TRUE, polled |-> FALSE]
            /\ IF outcome = "Created"
               THEN /\ remote' = [remote EXCEPT ![NextSessionId] = "starting"]
                    /\ mine' = mine \cup {NextSessionId}
                    /\ livy_global_session' =
                           [livy_global_session EXCEPT !.session_id = NextSessionId]
                    /\ pc' = "cs_poll"
                    /\ UNCHANGED <<op, branch, err>>
               ELSE \* session_id = None, then response.json()["id"] raises (the
                    \* body is no JSON, or JSON without "id")
                    /\ livy_global_session' = [livy_global_session EXCEPT !.session_id = 0]
                    /\ Raise("ParseError")
                    /\ UNCHANGED <<remote, mine>>
    /\ UNCHANGED <<credentials, cursors, ge_cands, ge_known, ge_result, disc_trace,
                   disconnected, last_post, del_last, retired, shortcuts, ge_trace, poll_gap, tokenVars, execVars, raceVars>>

\* One status GET of create_session's loop (lines 178-194) and what follows.
CreatePoll ==
    /\ pc = "cs_poll"
    /\ cs_last' = [cs_last EXCEPT !.polled = TRUE]
    /\ LET res == SessionJson(livy_global_session.session_id) IN
       IF StillStarting(res)
       THEN \* sleep DEFAULT_POLL_WAIT and poll again
            /\ poll_gap' = SessionPollSleep(res)
            /\ UNCHANGED <<livy_global_session, cursors, pc, op, branch, err, retired, shortcuts>>
       ELSE IF res.livyInfo.currentState = "idle"
       THEN /\ FinishConnect(livy_global_session, op)
            /\ poll_gap' = NoGap
            /\ UNCHANGED err
       ELSE IF res.livyInfo.currentState = "dead"
       THEN /\ Raise("FailedToConnectException")
            /\ poll_gap' = NoGap
            /\ UNCHANGED <<livy_global_session, cursors, retired, shortcuts>>
       ELSE \* neither branch: the loop polls again at once
            /\ poll_gap' = SessionPollSleep(res)
            /\ UNCHANGED <<livy_global_session, cursors, pc, op, branch, err, retired, shortcuts>>
    /\ UNCHANGED <<remote, credentials, ge_cands, ge_known, ge_result, mine,
                   disc_trace, disconnected, last_post, del_last, ge_trace, tokenVars, execVars, raceVars>>

\* The exception met inside delete_session's try block (lines 199-208): the
\* url is concatenated first (a None id cannot be), then get_headers runs, then
\* the request; on a status other than 200 the else branch calls
\* raise_for_status on `response`, which is the imported urllib module.
DeleteTryException(session_id, outcome) ==
    IF session_id = 0 THEN "TypeError"
    ELSE IF outcome = "token_error" THEN "ClientAuthenticationError"
    ELSE IF outcome = "transport_error" THEN "ConnectionError"
    ELSE IF outcome = "status_error" THEN "AttributeError"
    ELSE "none"

DeleteCaught_requests(e) == e = "ConnectionError"

\* `except Exception` (line 210) catches every one of these.
DeleteCaught(e) ==
    e \in {"TypeError", "ClientAuthenticationError", "ConnectionError", "AttributeError"}

\* The exception delete_session lets out to its caller, "none" when it returns.
delete_session(session_id, outcome) ==
    LET e == DeleteTryException(session_id, outcome) IN
    IF e # "none" /\ ~DeleteCaught(e) THEN e ELSE "none"

\* The remote after the DELETE: a 200 means the session is killed.
DeleteEffect(outcome) ==
    IF outcome = "deleted"
    THEN [remote EXCEPT ![livy_global_session.session_id] = "killed"]
    ELSE remote

\* What is remembered of the call.
DeleteCall(outcome) ==
    [outcome |-> IF outcome = "deleted" THEN "deleted" ELSE "failed",
     raised |-> delete_session(livy_global_session.session_id, outcome) # "none"]

\* connect() replacing an invalid session: delete_session, then create_session
\* (lines 578-579).
ConnectDelete(outcome) ==
    /\ pc = "cn_delete"
    /\ remote' = DeleteEffect(outcome)
    /\ del_last' = DeleteCall(outcome)
    /\ cs_last' = CsNone
    /\ LET e == delete_session(livy_global_session.session_id, outcome) IN
       IF e # "none"
       THEN Raise(e)
       ELSE /\ pc' = "cs_post"
            /\ UNCHANGED <<op, branch, err>>
    /\ UNCHANGED <<credentials, livy_global_session, cursors, ge_cands,
                   ge_known, ge_result, mine, disc_trace, disconnected, last_post,
                   retired, shortcuts, ge_trace, poll_gap, tokenVars, execVars, raceVars>>

\* disconnect() (lines 590-593): the validity GET and the decision.
Disconnect ==
    /\ pc = "idle"
    /\ disconnected' = TRUE
    /\ IF ~livy_global_session.exists
       THEN Raise("AttributeError")
       ELSE IF livy_global_session.session_id = 0
       THEN Raise("TypeError")
       ELSE IF is_valid_session(livy_global_session) /\ ~is_keeping_session
       THEN /\ pc' = "dc_delete"
            /\ op' = "disconnect"
            /\ err' = "none"
            /\ UNCHANGED branch
       ELSE /\ err' = "none"
            /\ UNCHANGED <<pc, op, branch>>
    /\ CallBegins
    /\ cs_last' = CsNone
    /\ last_post' = NoPost
    /\ UNCHANGED <<remote, credentials, livy_global_session, cursors, ge_cands, mine,
                   retired, shortcuts, tokenVars, execVars, raceVars>>

\* disconnect(): delete_session and the flag (lines 592-593).
DisconnectDelete(outcome) ==
    /\ pc = "dc_delete"
    /\ remote' = DeleteEffect(outcome)
    /\ del_last' = DeleteCall(outcome)
    /\ LET e == delete_session(livy_global_session.session_id, outcome) IN
       IF e # "none"
       THEN /\ Raise(e)
            /\ disc_trace' = [deleted |-> livy_global_session.session_id, flagged |-> FALSE]
            /\ UNCHANGED <<livy_global_session, retired>>
       ELSE /\ livy_global_session' =
                   [livy_global_session EXCEPT !.is_new_session_required = TRUE]
            /\ disc_trace' = [deleted |-> livy_global_session.session_id, flagged |-> TRUE]
            /\ retired' = [id |-> livy_global_session.session_id, connected |-> FALSE]
            /\ pc' = "idle"
            /\ op' = "none"
            /\ UNCHANGED <<branch, err>>
    /\ UNCHANGED <<credentials, cursors, ge_cands, ge_known, ge_result,
                   mine, cs_last, disconnected, shortcuts, ge_trace, poll_gap, tokenVars, execVars, raceVars, last_post>>

\* The statement POST of a cursor that holds session id `sid` (lines 349-353).
StatementPost(cursor, sid, invalid_at_call, reconnected) ==
    [made |-> TRUE, cursor |-> cursor, invalid_at_call |-> invalid_at_call,
     reconnected |-> reconnected, sid |-> sid]

\* A cursor's execute() up to its first statement POST (lines 336-353): with
\* the flag set it goes through connect() first, else it POSTs at once to the
\* session id it holds.
ExecuteSubmit(c) ==
    /\ pc = "idle"
    /\ c \in cursors
    /\ LET invalid == remote[c] \in invalid_states IN
       IF livy_global_session.is_new_session_required
       THEN /\ last_post' = [made |-> FALSE, cursor |-> c, invalid_at_call |-> invalid,
                             reconnected |-> TRUE, sid |-> 0]
            /\ ConnectExisting("execute")
       ELSE /\ last_post' = StatementPost(c, c, invalid, FALSE)
            /\ err' = "none"
            /\ cs_last' = CsNone
            /\ UNCHANGED <<livy_global_session, cursors, pc, op, branch, retired, shortcuts>>
    /\ CallBegins
    /\ UNCHANGED <<remote, credentials, ge_cands, mine, disconnected, tokenVars,
                   execVars, raceVars>>

\* The statement POST after the reconnect: to the session id taken from the
\* registry's session object (line 339).
ExecutePost ==
    /\ pc = "ex_post"
    /\ last_post' = StatementPost(last_post.cursor, livy_global_session.session_id,
                                  last_post.invalid_at_call, TRUE)
    /\ pc' = "idle"
    /\ op' = "none"
    /\ UNCHANGED <<remote, credentials, livy_global_session, cursors, branch,
                   ge_cands, ge_known, ge_result, err, mine, cs_last, disc_trace,
                   disconnected, del_last, retired, shortcuts, ge_trace, poll_gap, tokenVars, execVars, raceVars>>

\* ---- the remote's own steps
RemoteStep(id, to) ==
    /\ remote' = [remote EXCEPT ![id] = to]
    /\ UNCHANGED <<credentials, livy_global_session, cursors, pc, op, branch,
                   ge_cands, ge_known, ge_result, err, mine, cs_last, disc_trace,
                   disconnected, last_post, del_last, retired, shortcuts, ge_trace, poll_gap, tokenVars, execVars, raceVars>>

SessionAdvances(id) ==
    /\ remote[id] \in {"not_started", "starting"}
    /\ RemoteStep(id, IF remote[id] = "not_started" THEN "starting" ELSE "idle")

\* A statement starts or ends on the session.
SessionBusy(id) ==
    /\ remote[id] \in {"idle", "busy"}
    /\ RemoteStep(id, IF remote[id] = "idle" THEN "busy" ELSE "idle")

SessionDies(id) ==
    /\ remote[id] \in {"not_started", "starting", "idle", "busy"}
    /\ RemoteStep(id, "dead")

\* The service stops the session (a timeout, an administrator).
SessionStopped(id) ==
    /\ remote[id] \in {"idle", "busy"}
    /\ RemoteStep(id, "shutting_down")

SessQuiet ==
    /\ remote = [id \in SessionIds |-> "absent"]
    /\ credentials = [livy_session_name |-> "none", keep_session |-> FALSE,
                      shortcuts_json_path |-> FALSE]
    /\ livy_global_session = NoSession
    /\ cursors = {}
    /\ pc = "idle"
    /\ op = "none"
    /\ branch = 0
    /\ ge_cands = <<>>
    /\ ge_known = Unseen
    /\ ge_result = 0
    /\ err = "none"
    /\ mine = {}
    /\ cs_last = CsNone
    /\ disc_trace = NoDisc
    /\ disconnected = FALSE
    /\ last_post = NoPost
    /\ del_last = NoDel
    /\ retired = NoRetired
    /\ shortcuts = NoShortcuts
    /\ ge_trace = NoGeTrace
    /\ poll_gap = NoGap

\* The process starts with no session object.  The sessions the remote
\* already holds enter the model when the first connect() lists them: those
\* get_exist_session goes on to poll with the state listed, the others, which
\* the process never asks about again, as "out_of_sight".
InitSess ==
    /\ remote = [id \in SessionIds |-> "absent"]
    /\ credentials \in [livy_session_name : {"none", "etl"}, keep_session : BOOLEAN,
                        shortcuts_json_path : BOOLEAN]
    /\ livy_global_session = NoSession
    /\ cursors = {}
    /\ pc = "idle"
    /\ op = "none"
    /\ branch = 0
    /\ ge_cands = <<>>
    /\ ge_known = Unseen
    /\ ge_result = 0
    /\ err = "none"
    /\ mine = {}
    /\ cs_last = CsNone
    /\ disc_trace = NoDisc
    /\ disconnected = FALSE
    /\ last_post = NoPost
    /\ del_last = NoDel
    /\ retired = NoRetired
    /\ shortcuts = NoShortcuts
    /\ ge_trace = NoGeTrace
    /\ poll_gap = NoGap

(***************************************************************************)
(* connect() entered by several threads while the registry holds no        *)
(* session.  The code takes no lock; a thread can be switched between any  *)
(* two of its reads and writes of the class attribute and of the session   *)
(* object's fields, and blocks in every request.  The credentials name no  *)
(* session to look for, so get_exist_session returns None (line 225) and   *)
(* each DELETE and POST is answered.                                       *)
(***************************************************************************)
Threads == 1..NThreads

NewObject == [session_id |-> 0, is_new_session_required |-> TRUE]

RaceQuiet ==
    /\ r_global = 0
    /\ r_objs = [t \in Threads |-> NewObject]
    /\ r_pc = [t \in Threads |-> "start"]
    /\ r_self = [t \in Threads |-> 0]
    /\ r_resp = [t \in Threads |-> 0]
    /\ r_conn = [t \in Threads |-> -1]
    /\ r_err = [t \in Threads |-> "none"]
    /\ r_remote = <<>>

RaceOthers == <<tokenVars, execVars, sessVars>>

\* A thread raises out of connect().
RRaise(t, e) ==
    /\ r_err' = [r_err EXCEPT ![t] = e]
    /\ r_pc' = [r_pc EXCEPT ![t] = "done"]

\* The test of line 569; when it fails the elif of line 577 reads the
\* attribute again and calls is_valid_session on what it finds.
RCheck(t) ==
    /\ r_pc[t] = "start"
    /\ IF r_global = 0
       THEN /\ r_pc' = [r_pc EXCEPT ![t] = "assign"]
            /\ UNCHANGED r_self
       ELSE /\ r_pc' = [r_pc EXCEPT ![t] = "valid"]
            /\ r_self' = [r_self EXCEPT ![t] = r_global]
    /\ UNCHANGED <<r_global, r_objs, r_resp, r_conn, r_err, r_remote, RaceOthers>>

\* line 570: a new LivySession is made and stored in the class attribute.
RAssign(t) ==
    /\ r_pc[t] = "assign"
    /\ r_objs' = [r_objs EXCEPT ![t] = NewObject]
    /\ r_global' = t
    /\ r_pc' = [r_pc EXCEPT ![t] = "call"]
    /\ UNCHANGED <<r_self, r_resp, r_conn, r_err, r_remote, RaceOthers>>

\* line 571: the attribute is read again and get_exist_session_or_create is
\* called on the object found there; with no name it goes to create_session.
RCall(t) ==
    /\ r_pc[t] = "call"
    /\ r_self' = [r_self EXCEPT ![t] = r_global]
    /\ r_pc' = [r_pc EXCEPT ![t] = "post"]
    /\ UNCHANGED <<r_global, r_objs, r_resp, r_conn, r_err, r_remote, RaceOthers>>

\* is_valid_session on the object (lines 213-221), then the tests of lines
\* 577 and 581, each on the attribute as it is then.
RValid(t) ==
    /\ r_pc[t] = "valid"
    /\ LET sid == r_objs[r_self[t]].session_id IN
       IF sid = 0
       THEN \* None cannot be concatenated to the url
            /\ RRaise(t, "TypeError")
            /\ UNCHANGED r_self
       ELSE IF r_remote[sid] \in invalid_states
       THEN /\ r_pc' = [r_pc EXCEPT ![t] = "delete"]
            /\ r_self' = [r_self EXCEPT ![t] = r_global]
            /\ UNCHANGED r_err
       ELSE IF r_objs[r_global].is_new_session_required
       THEN /\ r_pc' = [r_pc EXCEPT ![t] = "post"]
            /\ r_self' = [r_self EXCEPT ![t] = r_global]
            /\ UNCHANGED r_err
       ELSE /\ r_pc' = [r_pc EXCEPT ![t] = "connection"]
            /\ UNCHANGED <<r_self, r_err>>
    /\ UNCHANGED <<r_global, r_objs, r_resp, r_conn, r_remote, RaceOthers>>

\* line 578: delete_session on the invalid session, which never raises; line
\* 579 then reads the attribute and calls create_session.
RDelete(t) ==
    /\ r_pc[t] = "delete"
    /\ LET sid == r_objs[r_self[t]].session_id IN
       r_remote' = IF sid # 0 THEN [r_remote EXCEPT ![sid] = "killed"] ELSE r_remote
    /\ r_self' = [r_self EXCEPT ![t] = r_global]
    /\ r_pc' = [r_pc EXCEPT ![t] = "post"]
    /\ UNCHANGED <<r_global, r_objs, r_resp, r_conn, r_err, RaceOthers>>

\* create_session's POST (lines 151-158): the remote makes a session and
\* answers with its id.
RPost(t) ==
    /\ r_pc[t] = "post"
    /\ r_remote' = Append(r_remote, "starting")
    /\ r_resp' = [r_resp EXCEPT ![t] = Len(r_remote) + 1]
    /\ r_pc' = [r_pc EXCEPT ![t] = "unset"]
    /\ UNCHANGED <<r_global, r_objs, r_self, r_conn, r_err, RaceOthers>>

\* line 171: self.session_id = None, on an object another thread may be
\* polling with or reading its id from.
RUnset(t) ==
    /\ r_pc[t] = "unset"
    /\ r_objs' = [r_objs EXCEPT ![r_self[t]].session_id = 0]
    /\ r_pc' = [r_pc EXCEPT ![t] = "parse"]
    /\ UNCHANGED <<r_global, r_self, r_resp, r_conn, r_err, r_remote, RaceOthers>>

\* lines 172-173: self.session_id takes the id of the response.
RParse(t) ==
    /\ r_pc[t] = "parse"
    /\ r_objs' = [r_objs EXCEPT ![r_self[t]].session_id = r_resp[t]]
    /\ r_pc' = [r_pc EXCEPT ![t] = "poll"]
    /\ UNCHANGED <<r_global, r_self, r_resp, r_conn, r_err, r_remote, RaceOthers>>

\* One status GET of create_session's loop (lines 178-192), for the id
\* self.session_id holds at that moment.
RPoll(t) ==
    /\ r_pc[t] = "poll"
    /\ LET sid == r_objs[r_self[t]].session_id
           state == IF sid = 0 THEN "none" ELSE r_remote[sid]
       IN
       IF sid = 0
       THEN \* line 180 concatenates None to the url
            /\ RRaise(t, "TypeError")
            /\ UNCHANGED r_objs
       ELSE IF state = "starting"
       THEN UNCHANGED <<r_objs, r_pc, r_err>>
       ELSE IF state = "idle"
       THEN /\ r_objs' = [r_objs EXCEPT ![r_self[t]].is_new_session_required = FALSE]
            /\ r_pc' = [r_pc EXCEPT ![t] = "clear"]
            /\ UNCHANGED r_err
       ELSE IF state = "dead"
       THEN /\ RRaise(t, "FailedToConnectException")
            /\ UNCHANGED r_objs
       ELSE UNCHANGED <<r_objs, r_pc, r_err>>
    /\ UNCHANGED <<r_global, r_self, r_resp, r_conn, r_remote, RaceOthers>>

\* lines 572, 580, 583: the flag of the object the attribute holds is cleared.
RClear(t) ==
    /\ r_pc[t] = "clear"
    /\ r_objs' = [r_objs EXCEPT ![r_global].is_new_session_required = FALSE]
    /\ r_pc' = [r_pc EXCEPT ![t] = "connection"]
    /\ UNCHANGED <<r_global, r_self, r_resp, r_conn, r_err, r_remote, RaceOthers>>

\* lines 586-587 and 515: the connection takes the session id of the object
\* the attribute holds.
RConnection(t) ==
    /\ r_pc[t] = "connection"
    /\ r_conn' = [r_conn EXCEPT ![t] = r_objs[r_global].session_id]
    /\ r_pc' = [r_pc EXCEPT ![t] = "done"]
    /\ UNCHANGED <<r_global, r_objs, r_self, r_resp, r_err, r_remote, RaceOthers>>

\* The remote: a session comes up, or dies.
RSessionStep(sid, to) ==
    /\ r_remote' = [r_remote EXCEPT ![sid] = to]
    /\ UNCHANGED <<r_global, r_objs, r_pc, r_self, r_resp, r_conn, r_err, RaceOthers>>

RSessionIdle(sid) ==
    /\ sid \in 1..Len(r_remote)
    /\ r_remote[sid] = "starting"
    /\ RSessionStep(sid, "idle")

RSessionDies(sid) ==
    /\ sid \in 1..Len(r_remote)
    /\ r_remote[sid] \in {"starting", "idle"}
    /\ RSessionStep(sid, "dead")

InitRace == RaceQuiet /\ TokenQuiet /\ ExecIdle /\ SessQuiet

NextRace ==
    \/ \E t \in Threads : RCheck(t)
    \/ \E t \in Threads : RAssign(t)
    \/ \E t \in Threads : RCall(t)
    \/ \E t \in Threads : RValid(t)
    \/ \E t \in Threads : RDelete(t)
    \/ \E t \in Threads : RPost(t)
    \/ \E t \in Threads : RUnset(t)
    \/ \E t \in Threads : RParse(t)
    \/ \E t \in Threads : RPoll(t)
    \/ \E t \in Threads : RClear(t)
    \/ \E t \in Threads : RConnection(t)
    \/ \E sid \in 1..NThreads : RSessionIdle(sid)
    \/ \E sid \in 1..NThreads : RSessionDies(sid)

SpecRace == InitRace /\ [][NextRace]_vars

Init == InitSess /\ TokenQuiet /\ ExecIdle /\ RaceQuiet

Next ==
    \/ ConnectFirst
    \/ GePoll
    \/ ConnectAgain
    \/ \E outcome \in CreateOutcomes : CreatePost(outcome)
    \/ CreatePoll
    \/ \E outcome \in DeleteOutcomes : ConnectDelete(outcome)
    \/ Disconnect
    \/ \E outcome \in DeleteOutcomes : DisconnectDelete(outcome)
    \/ \E c \in SessionIds : ExecuteSubmit(c)
    \/ ExecutePost
    \/ \E id \in SessionIds : SessionAdvances(id)
    \/ \E id \in SessionIds : SessionBusy(id)
    \/ \E id \in SessionIds : SessionDies(id)
    \/ \E id \in SessionIds : SessionStopped(id)

Spec == Init /\ [][Next]_vars

\* The calling thread is never suspended for good: a poll loop that can take
\* a step which changes something takes one.  A GET that finds what the last
\* GET found changes nothing, and the loop may repeat it for ever.
SpecLive == Spec /\ WF_vars(CreatePoll) /\ WF_vars(GePoll)

InitExec == ExecIdle /\ TokenQuiet /\ SessQuiet /\ RaceQuiet

NextExec ==
    \/ \E code \in Codes, language \in Languages, parameters \in Parameters :
          ExecStart(code, language, parameters)
    \/ SubmitRetry
    \/ SubmitExhausted
    \/ \E state \in PostStates : SubmitAccepted(state)
    \/ \E state \in PendingStates : PollPending(state)
    \/ \E out \in Outputs : PollTransientRetry(out)
    \/ \E out \in Outputs : PollFinalOk(out)
    \/ \E out \in Outputs : PollFinalError(out)
    \/ FetchOne
    \/ Close

SpecExec == InitExec /\ [][NextExec]_vars

\* Every statement POST is answered (lines 349-353), and every statement
\* polled becomes "available" at some GET (lines 386-398).
SubmitAnswered ==
    SubmitRetry \/ SubmitExhausted \/ \E state \in PostStates : SubmitAccepted(state)
PollAvailable ==
    \E out \in Outputs :
        PollTransientRetry(out) \/ PollFinalOk(out) \/ PollFinalError(out)

\* The steps of execute() alone, on a cursor no statement has yet run on:
\* the call is made again only when interpolation stopped it (line 429).
NextExecute ==
    \/ /\ ~ex_ran
       /\ \E code \in Codes, language \in Languages, parameters \in Parameters :
             ExecStart(code, language, parameters)
    \/ SubmitAnswered
    \/ \E state \in PendingStates : PollPending(state)
    \/ PollAvailable

\* The cursor's thread keeps running and the remote answers as above.
SpecExecLive ==
    InitExec /\ [][NextExecute]_vars /\ WF_vars(SubmitAnswered) /\ WF_vars(PollAvailable)

InitTokenSpec == InitToken /\ ExecIdle /\ SessQuiet /\ RaceQuiet

NextToken ==
    \/ GetHeadersCached
    \/ \E life \in TokenLifetimes : GetHeadersFetch(life)
    \/ GetHeadersFetchFails
    \/ Tick

SpecToken == InitTokenSpec /\ [][NextToken]_vars

(***************************************************************************)
(* Claims about the token cache, checked under SpecToken.                  *)
(***************************************************************************)
\* The last get_headers call found a cached token.
TkSawToken == tk_last.called /\ tk_last.had
\* Seconds from that call to the expiry of the token it found.
TkRemaining == tk_last.expires_on - tk_last.at

\* C5: with a cached token, get_headers fetches exactly when the expiry is
\* 300 s or less after now (300 s itself, and the past, included), and does
\* not fetch when it is more than 300 s after now.
C5_RefreshAtOrBelowFiveMinutes ==
    TkSawToken => (tk_last.fetched <=> TkRemaining <= 300)

(***************************************************************************)
(* Claims about execute() and fetchone(), checked under SpecExec.          *)
(***************************************************************************)
\* _submitLivyCode has returned and _getLivyResult is polling.
SubmitReturned == ex_pc = "poll"

\* C2: a submit whose first k POSTs (k in 0..5) were answered "error" and whose
\* next POST was not has issued exactly k+1 POSTs, all with the one {code, kind}
\* body, has slept 10, 20, ..., 10k seconds after the errored answers, and
\* returns the answer of POST k+1; it gives up with an errored answer only
\* after more than 5 errors.
C2_SubmitRetry ==
    /\ (SubmitReturned /\ sub_res.state # "error") =>
          /\ sub_errs \in 0..5
          /\ Len(sub_posts) = sub_errs + 1
          /\ \A i \in 1..Len(sub_posts) : sub_posts[i] = ex_body
          /\ sub_sleeps = [i \in 1..sub_errs |-> 10 * i]
          /\ sub_res.id = StmtId(ex_cycles, sub_errs + 1)
    /\ (SubmitReturned /\ sub_res.state = "error") => sub_errs > 5
    /\ (ex_pc = "submit") => Len(sub_posts) = sub_errs /\ Len(sub_sleeps) = sub_errs

\* A submit returned a non-error answer after five errored ones.
C2_Witness ==
    /\ SubmitReturned
    /\ sub_res.state = "running"
    /\ sub_errs = 5
    /\ sub_sleeps = <<10, 20, 30, 40, 50>>

\* C3: when execute() ends on a result with status "ok" after k transient
\* error results, k is in 0..5, the submit+poll cycle has run exactly k+1
\* times, no error is raised and the cursor holds the rows and schema of that
\* last result; execute() ends on a transient error only after more than 5.
C3_ExecuteRetry ==
    [][ (ex_pc = "poll" /\ ex_pc' = "idle") =>
          /\ (ex_res'.output.status = "ok") =>
                /\ ex_transients' \in 0..5
                /\ ex_cycles' = ex_transients' + 1
                /\ ex_err' = "none"
                /\ rows' = Some(ex_res'.output.values.data)
                /\ schema' = Some(ex_res'.output.values.fields)
          /\ TransientOutput(ex_res'.output) => ex_transients' > 5 ]_vars

\* execute() succeeded with two rows after five transient error results.
C3_Witness ==
    /\ ex_pc = "idle"
    /\ ex_ran
    /\ ex_err = "none"
    /\ ex_transients = 5
    /\ ex_cycles = 6
    /\ rows = Some(<<"r2", "r1">>)
    /\ schema = Some(<<"a", "b">>)

\* `res` holds an available result whose error text has no transient pattern.
NonTransientError(res) ==
    /\ res.state = "available"
    /\ res.output.status = "error"
    /\ ~Contains(res.output.evalue, RetryPattern)

\* C4: once a statement is available with an error that matches no transient
\* pattern, execute() has ended with the query-execution error carrying that
\* evalue, and nothing has been submitted since, whatever retries were used.
C4_NonTransientRaises ==
    NonTransientError(ex_res) =>
        /\ ex_pc = "idle"
        /\ ex_err = "DbtDatabaseError"
        /\ ex_errval = ex_res.output.evalue
        /\ sub_res.id = ex_res.id

\* execute() raised on a non-transient error after five retries were consumed.
C4_Witness ==
    /\ NonTransientError(ex_res)
    /\ ex_retries = 5
    /\ ex_err = "DbtDatabaseError"
    /\ ex_errval = <<"AnalysisException">>

\* C19: a submit that returns an errored answer has issued exactly 6 POSTs,
\* every one answered "error", and has slept 10, 20, 30, 40 and 50 seconds
\* between them; it returns the answer of the sixth POST and raises nothing,
\* and every statement GET that follows asks for the id of that answer.
C19_SubmitExhaustionReturnsLastError ==
    [][ /\ (ex_pc' = "poll" /\ sub_res'.state = "error") =>
              /\ Len(sub_posts') = 6
              /\ sub_errs' = 6
              /\ sub_sleeps' = <<10, 20, 30, 40, 50>>
              /\ sub_res'.id = StmtId(ex_cycles', 6)
              /\ ex_err' = "none"
        /\ (ex_pc = "poll" /\ sub_res.state = "error") => poll_id' = sub_res.id ]_vars

\* An exhausted submit returned its sixth errored answer and execute() has
\* polled that statement.
C19_Witness ==
    /\ SubmitReturned
    /\ sub_res.state = "error"
    /\ sub_errs = 6
    /\ poll_id = sub_res.id

\* C20: execute() never starts a seventh submit+poll cycle, and when it ends
\* on a result with a transient error it has run exactly 6 cycles, each ended
\* by a transient error, with sleeps of 10, 20, 30, 40 and 50 seconds between
\* them; it raises the query-execution error with the text of the last result
\* and leaves the cursor without rows and without schema.
C20_ExecuteExhaustionRaises ==
    [][ /\ ex_cycles' <= 6
        /\ (ex_pc = "poll" /\ ex_pc' = "idle" /\ TransientOutput(ex_res'.output)) =>
              /\ ex_cycles' = 6
              /\ ex_transients' = 6
              /\ ex_sleeps' = <<10, 20, 30, 40, 50>>
              /\ ex_err' = "DbtDatabaseError"
              /\ ex_errval' = ex_res'.output.evalue
              /\ Contains(ex_errval', RetryPattern)
              /\ rows' = NoneVal
              /\ schema' = NoneVal ]_vars

\* execute() raised after six cycles that all ended on a transient error.
C20_Witness ==
    /\ ex_pc = "idle"
    /\ ex_ran
    /\ ex_cycles = 6
    /\ ex_transients = 6
    /\ TransientOutput(ex_res.output)
    /\ ex_err = "DbtDatabaseError"
    /\ rows = NoneVal

\* execute() has come back: with the rows and schema of an "ok" result, or
\* raising the query-execution error.
ExecuteEnded ==
    /\ ex_pc = "idle"
    /\ ex_ran
    /\ \/ ex_err = "none" /\ rows.some /\ schema.some
       \/ ex_err = "DbtDatabaseError" /\ rows = NoneVal /\ schema = NoneVal

\* C23: when every statement POST is answered and every statement polled
\* becomes available, an execute() that has started submitting comes back,
\* with rows and schema set or raising the query-execution error, whatever
\* errored POST answers and transient error results the remote gives.
C23_ExecuteTerminates ==
    (ex_pc # "idle") ~> ExecuteEnded

\* execute() came back after a submit that used up its retries in a cycle
\* that followed a transient error result.
C23_Witness ==
    /\ ExecuteEnded
    /\ ex_cycles > 1
    /\ sub_errs = 6
    /\ ex_transients >= 1

\* What call i of fetchone must return: row i of the last successful
\* execute(), or null past its end, with no such execute(), or after close().
ExpectedFetch(i) ==
    IF src_rows.some /\ i <= Len(src_rows.val) THEN src_rows.val[i] ELSE "null"

\* C8: the fetchone calls since the last execute() or close() returned the
\* server's rows in order and then null; null alone when no execute() has
\* succeeded or after close().
C8_FetchOneOrder ==
    \A i \in 1..Len(fetch_log) : fetch_log[i] = ExpectedFetch(i)

\* Three fetchone calls on a result of two different rows.
C8_Witness ==
    /\ src_rows = Some(<<"r2", "r1">>)
    /\ fetch_log = <<"r2", "r1", "null">>
    /\ rows = Some(<<>>)

\* C15: an execute() given positional parameters has raised
\* NotImplementedError without submitting a statement; no body POSTed holds
\* code interpolated with the parameters.
C15_ParametersRejected ==
    Len(ex_params) > 0 =>
        /\ ex_pc = "idle"
        /\ ex_err = "NotImplementedError"
        /\ ex_cycles = 0
        /\ sub_posts = <<>>

(***************************************************************************)
(* Claims about the registry and the session client, checked under Spec.   *)
(***************************************************************************)
\* A session of this process that is neither deleted nor dead, killed or
\* shutting down.
Live(id) == remote[id] \in {"not_started", "starting", "idle", "busy"}
LiveSessions == {id \in mine : Live(id)}

\* C1: the sessions this process created or adopted and that are still live
\* number at most one.
C1_AtMostOneLiveSession == Cardinality(LiveSessions) <= 1

\* C6: the id get_exist_session returned is not one whose state, as last seen
\* in the list or in a status poll, is dead, shutting_down or killed.
C6_NoInvalidSessionReturned ==
    ge_result # 0 => ge_known[ge_result] \notin {"dead", "shutting_down", "killed"}

\* get_exist_session returned the second listed session after polling it
\* idle, the first having been seen dead.
C6_Witness ==
    /\ ge_result = 2
    /\ ge_known[1] = "dead"
    /\ ge_known[2] = "idle"

\* C7: with keep_session set, no disconnect() issues a DELETE or sets
\* is_new_session_required.
C7_KeepSessionNeverDeletes ==
    credentials.keep_session =>
        /\ disc_trace.deleted = 0
        /\ ~disc_trace.flagged
        /\ pc # "dc_delete"

\* disconnect() has run under keep_session on a session that is valid, and
\* the session object still holds it with the flag clear.
C7_Witness ==
    /\ credentials.keep_session
    /\ disconnected
    /\ pc = "idle"
    /\ err = "none"
    /\ livy_global_session.exists
    /\ livy_global_session.session_id # 0
    /\ remote[livy_global_session.session_id] = "idle"
    /\ ~livy_global_session.is_new_session_required

\* C9: a statement POST of a cursor whose session was invalid when execute()
\* was called, no disconnect() having been called, comes after a reconnect
\* through the registry and goes to another session than the invalid one.
C9_ReconnectsWhenSessionInvalid ==
    (last_post.made /\ last_post.invalid_at_call /\ ~disconnected) =>
        /\ last_post.reconnected
        /\ last_post.sid # last_post.cursor

\* C10: a create_session whose POST failed at the transport level (connection
\* error, HTTP error status, timeout) has ended with the invalid-response
\* error, without parsing a session id and without polling.
C10_TransportFailureIsNoResponse ==
    cs_last.outcome \in {"ConnectionError", "HTTPError", "Timeout"} =>
        /\ err = "InvalidResponse"
        /\ ~cs_last.parsed
        /\ ~cs_last.polled
        /\ pc = "idle"

\* C11: no delete_session call raises to its caller, whatever the DELETE comes
\* to and whether or not the session id is set: the calls made by connect()
\* and disconnect() returned, and for every id and outcome the exception met
\* inside the call is caught.
C11_DeleteNeverRaises ==
    /\ ~del_last.raised
    /\ \A session_id \in 0..MaxSessions, outcome \in DeleteOutcomes :
           delete_session(session_id, outcome) = "none"

\* connect() found its session invalid, its DELETE failed, and it went on to
\* create_session.
C11_Witness ==
    /\ del_last.outcome = "failed"
    /\ ~del_last.raised
    /\ branch = 2
    /\ pc = "cs_post"
    /\ err = "none"

\* C12: a disconnect() that DELETEd its session has set the flag; once a
\* connect() has returned after it, the registry holds another session id, and
\* a statement POSTed since that connect() did not go to the deleted id.
C12_StatementsGoToFreshSession ==
    /\ disc_trace.deleted # 0 =>
           disc_trace.flagged /\ livy_global_session.is_new_session_required
    /\ retired.connected => livy_global_session.session_id # retired.id
    /\ (retired.connected /\ last_post.made) => last_post.sid # retired.id

\* C21: every statement POST a cursor makes goes to the session id the
\* registry's session object holds at the time of the POST, whichever
\* connect() the cursor came from.
C21_StatementsGoToRegistrySession ==
    [][ (last_post'.made /\ last_post' # last_post) =>
            last_post'.sid = livy_global_session'.session_id ]_vars

\* The registry holds a session object that has no session id.
RegistryWithoutId == livy_global_session.exists /\ livy_global_session.session_id = 0

\* C22: between registry operations the registry holds no session object or
\* one whose session id is set, and no connect() or disconnect() fails in its
\* validity check for want of an id.
C22_RegistrySessionHasId ==
    /\ pc = "idle" => ~RegistryWithoutId
    /\ err # "TypeError"

\* C16: get_exist_session polls no other item than the first one of the
\* list that has the configured name and is not listed in an invalid state,
\* and the id it returns is that item's.
C16_FirstMatchOnly ==
    /\ ge_trace.polled \subseteq {ge_trace.first}
    /\ ge_result # 0 => ge_result = ge_trace.first

\* C17: whenever a session poll loop (of create_session or of
\* get_exist_session) is to ask again about the session it has just asked
\* about, it first sleeps the fixed 45 s, whatever state the GET reported.
C17_SessionPollsSleepFixedInterval ==
    poll_gap # NoGap => poll_gap = 45

\* The states the claim calls terminal.
TerminalStates == {"idle", "dead", "killed", "shutting_down"}
InSessionPoll == pc \in {"cs_poll", "ge_poll"}
PolledSession == IF pc = "cs_poll" THEN livy_global_session.session_id ELSE Head(ge_cands)
PolledTerminal == InSessionPoll => remote[PolledSession] \in TerminalStates

\* C18: if from some point on the session a poll loop of create_session or
\* get_exist_session asks about is always in a terminal state (idle, dead,
\* killed or shutting_down), the loop is left again and again: no run stays
\* inside a session poll loop for ever.
C18_SessionPollEndsOnTerminalState ==
    <>[]PolledTerminal => []<>(~InSessionPoll)

\* A step in which connect() comes back with a session it discovered or
\* created: to its caller, or to the _submitLivyCode that called it.
ConnectObtains ==
    /\ pc \in {"ge_poll", "cs_poll"}
    /\ pc' \in {"idle", "ex_post"}
    /\ err' = "none"

\* C14 as stated: with a shortcuts path, create_shortcuts is called once each
\* time connect() obtains a new session (first connect, replacement of an
\* invalid session, re-creation after disconnect), and at no other time.
C14_ShortcutsPerNewSession ==
    [][ credentials.shortcuts_json_path =>
           shortcuts'.calls = shortcuts.calls + (IF ConnectObtains THEN 1 ELSE 0) ]_vars

\* C14 amended: with a shortcuts path, create_shortcuts is called once when
\* the first connect() of the process (the registry holding no session
\* object) obtains its session, for that session, and at no other time: not
\* on replacement of an invalid session, not on re-creation after
\* disconnect(); it has been called at most once.  Without a path it is not
\* called.
C14_ShortcutsOnFirstConnectOnly ==
    [][ /\ shortcuts'.calls =
              shortcuts.calls + (IF /\ ConnectObtains
                                    /\ branch = 1
                                    /\ credentials.shortcuts_json_path
                                 THEN 1 ELSE 0)
        /\ shortcuts'.calls <= 1
        /\ shortcuts'.calls > shortcuts.calls =>
              shortcuts'.session = livy_global_session'.session_id ]_vars

\* With a shortcuts path, the registry holds a session obtained after the
\* one the shortcuts were provisioned with, and no second call was made.
C14_Witness ==
    /\ credentials.shortcuts_json_path
    /\ shortcuts.calls = 1
    /\ pc = "idle"
    /\ err = "none"
    /\ ~livy_global_session.is_new_session_required
    /\ livy_global_session.session_id \notin {0, shortcuts.session}
    /\ remote[livy_global_session.session_id] = "idle"

(***************************************************************************)
(* Claims about concurrent callers, checked under SpecRace.                *)
(***************************************************************************)
RaceDone == \A t \in Threads : r_pc[t] = "done"

\* Every session the remote made came up and is still idle.
RaceRemoteHealthy == \A sid \in 1..Len(r_remote) : r_remote[sid] = "idle"

\* C13: when the connect() calls made at once with an empty registry have all
\* ended, and no session failed at the remote, none of the calls raised, the
\* connections all hold one and the same session id, and the remote has made
\* exactly one session.
C13_ConcurrentConnectSharesOneSession ==
    (RaceDone /\ RaceRemoteHealthy) =>
        /\ \A t \in Threads : r_err[t] = "none"
        /\ \A t, u \in Threads : r_conn[t] = r_conn[u] /\ r_conn[t] > 0
        /\ Len(r_remote) = 1

====
